---- MODULE Spec2Model ----
(***************************************************************************)
(* A model of MEDimage/processing: compute_box (compute_box.py),           *)
(* get_polygon_mask (get_polygon_mask.py) and process_dicom_scan_files     *)
(* (process_dicom_scan_files.py).                                          *)
(*                                                                         *)
(* Conventions of the model.                                               *)
(*  - An array is known by its shape; the ROI mask also by the set of its  *)
(*    voxels equal to 1 (triples of 0-based array indices).  A numpy slice *)
(*    of the volume is a view: base offset and shape.                      *)
(*  - World coordinates are kept doubled (an integer w stands for w/2), so *)
(*    that half pixel extents stay integers.  Pixel extents are integers.  *)
(*  - A Python str is a sequence of one-character strings.                 *)
(*  - An axis is 1, 2, 3 in the model for numpy axis 0, 1, 2.              *)
(***************************************************************************)
EXTENDS Integers, Sequences, FiniteSets, TLC

VARIABLES
    pc,            \* position in the function being run
    vol,           \* compute_box: argument vol (a view)
    roi,           \* compute_box: argument roi (shape and set voxels)
    spatial_ref,   \* argument spatial_ref of either function
    box_string,    \* compute_box: argument box_string
    box_bound,     \* compute_box: local box_bound, 3 rows of <<min, max>>
    n_v,           \* compute_box: local n_v, the margin per axis
    bb_calls,      \* number of calls of compute_bounding_box made
    result,        \* {} before the return, {the returned value} after
    err,           \* the exception raised, "" when none
    roi_xyz,       \* get_polygon_mask: argument roi_xyz, rows <<x, y, z, id>>
    orientation,   \* get_polygon_mask: argument orientation
    roi_mask,      \* get_polygon_mask: local roi_mask, its voxels equal to 1
    c_c,           \* get_polygon_mask: loop index over closed_contours
    grid,          \* get_polygon_mask: <<len(x_q), len(y_q)>> of the query grid
    select_slice,  \* get_polygon_mask: local select_slice, {} before the loop
    inpoly,        \* get_polygon_mask: local inpoly, {} before the loop
    pathImages,    \* process_dicom_scan_files: argument pathImages
    pathRS,        \* process_dicom_scan_files: argument pathRS
    path_save,     \* process_dicom_scan_files: argument path_save
    header,        \* the attributes every image header carries
    MEDimg,        \* process_dicom_scan_files: local MEDimg
    dicom_rs_full, \* process_dicom_scan_files: local dicom_rs_full
    rs,            \* process_dicom_scan_files: loop index over dicom_rs_full
    roi_idx,       \* process_dicom_scan_files: loop index roi of the inner loop
    contour_num,   \* process_dicom_scan_files: local contour_num
    name_set,      \* locals name_set and name_set_info, as one pair
    caught,        \* the exception on its way to the outer except clause
    stdout,        \* what the function printed
    saved          \* what save_MEDimage wrote

vars == <<pc, vol, roi, spatial_ref, box_string, box_bound, n_v, bb_calls,
          result, err, roi_xyz, orientation, roi_mask, c_c, grid,
          select_slice, inpoly, pathImages, pathRS, path_save, header, MEDimg,
          dicom_rs_full, rs, roi_idx, contour_num, name_set, caught, stdout,
          saved>>

boxVars == <<vol, roi, box_string, box_bound, n_v, bb_calls>>
maskVars == <<roi_xyz, orientation, roi_mask, c_c, grid, select_slice, inpoly>>

dicomVars == <<pathImages, pathRS, path_save, header, MEDimg, dicom_rs_full, rs,
               roi_idx, contour_num, name_set, caught, stdout, saved>>

Axes == 1..3

\* process_dicom_scan_files is not running.
DicomIdle ==
    /\ pathImages = {}
    /\ pathRS = {}
    /\ path_save = {}
    /\ header = {}
    /\ MEDimg = {}
    /\ dicom_rs_full = {}
    /\ rs = 0
    /\ roi_idx = 0
    /\ contour_num = 0
    /\ name_set = {}
    /\ caught = {}
    /\ stdout = << >>
    /\ saved = {}

(***************************************************************************)
(* Bounds of the model.                                                    *)
(***************************************************************************)
DimX == 4
DimY == 3
DimZ == 2
MaxMargin == 2
MaxFactor == 3
GridN == 3
MaxSlices == 5
MaxRS == 2
MaxRoi == 2

(***************************************************************************)
(* Arithmetic helpers.                                                     *)
(***************************************************************************)
Min(a, b) == IF a <= b THEN a ELSE b
Max(a, b) == IF a >= b THEN a ELSE b
SetMin(S) == CHOOSE x \in S : \A y \in S : x <= y
SetMax(S) == CHOOSE x \in S : \A y \in S : x >= y

\* np.round of the rational num/den (den > 0): to nearest, halves to even.
RoundHalfUp(num, den) == (2 * num + den) \div (2 * den)
RoundHalfEven(num, den) ==
    LET q == num \div den
        r == num % den
    IN  IF 2 * r < den THEN q
        ELSE IF 2 * r > den THEN q + 1
        ELSE IF q % 2 = 0 THEN q ELSE q + 1

\* astype(int) of the rational num/den (den > 0): truncation towards zero.
TruncInt(num, den) == IF num >= 0 THEN num \div den ELSE -((-num) \div den)

(***************************************************************************)
(* Python str operations used on box_string.                               *)
(***************************************************************************)
BOX == <<"b", "o", "x">>
FULL == <<"f", "u", "l", "l">>
Digits == <<"0", "1", "2", "3", "4", "5", "6", "7", "8", "9">>

\* str.find(sub): the 0-based index of the first occurrence, -1 when none.
Find(s, sub) ==
    LET hits == {i \in 0..(Len(s) - Len(sub)) :
                    SubSeq(s, i + 1, i + Len(sub)) = sub}
    IN  IF hits = {} THEN -1 ELSE SetMin(hits)

\* sub in s
Contains(s, sub) == Find(s, sub) >= 0

DigitVal(ch) == (CHOOSE d \in 1..10 : Digits[d] = ch) - 1
IsDigit(ch) == \E d \in 1..10 : Digits[d] = ch

RECURSIVE DigitsVal(_)
DigitsVal(s) ==
    IF s = << >> THEN 0
    ELSE 10 * DigitsVal(SubSeq(s, 1, Len(s) - 1)) + DigitVal(s[Len(s)])

RECURSIVE Pow10(_)
Pow10(k) == IF k = 0 THEN 1 ELSE 10 * Pow10(k - 1)

\* float(s) for unsigned decimal literals: digits, at most one point, at least
\* one digit.  ok = FALSE is Python's ValueError.  The value is num/den.
ParseFloat(s) ==
    LET dots == {i \in 1..Len(s) : s[i] = "."}
        p == IF dots = {} THEN Len(s) + 1 ELSE SetMin(dots)
        ip == SubSeq(s, 1, p - 1)
        fp == SubSeq(s, p + 1, Len(s))
        wellFormed == /\ Cardinality(dots) <= 1
                      /\ Len(ip) + Len(fp) >= 1
                      /\ \A i \in 1..Len(ip) : IsDigit(ip[i])
                      /\ \A i \in 1..Len(fp) : IsDigit(fp[i])
    IN  IF wellFormed
        THEN [ok |-> TRUE, num |-> DigitsVal(ip \o fp), den |-> Pow10(Len(fp))]
        ELSE [ok |-> FALSE, num |-> 0, den |-> 1]

\* str(n) for 0 <= n < 100, to build inputs.
Dec(n) == IF n < 10 THEN <<Digits[n + 1]>>
          ELSE <<Digits[(n \div 10) + 1], Digits[(n % 10) + 1]>>

(***************************************************************************)
(* imref3d (MEDimage/utils/imref.py), after the specification, sections 3  *)
(* and 4.1.  WorldLimits[a] = <<min, max>>, doubled.                       *)
(***************************************************************************)
\* imref3d(imageSize, ex, ey, ez): limits consistent with size and extent.
Imref3d(size, ext) ==
    [ImageSize |-> size,
     PixelExtentInWorld |-> ext,
     WorldLimits |-> [a \in Axes |-> <<ext[a], ext[a] + 2 * size[a] * ext[a]>>]]

\* intrinsicToWorld on one axis: x = worldLimits.min + (i - 0.5) * pixelExtent
IntrinsicToWorld(R, a, i) ==
    R.WorldLimits[a][1] + (2 * i - 1) * R.PixelExtentInWorld[a]

\* worldToIntrinsic on one axis: i = (x - worldLimits.min)/pixelExtent + 0.5,
\* as the rational num/den.
WorldToIntrinsic(R, a, x) ==
    [num |-> (x - R.WorldLimits[a][1]) + R.PixelExtentInWorld[a],
     den |-> 2 * R.PixelExtentInWorld[a]]

(***************************************************************************)
(* compute_bounding_box (compute_bounding_box.py), after the               *)
(* specification, section 4.5.                                             *)
(***************************************************************************)
IsEmptyMask(m) == m.ones = {}

ComputeBoundingBox(m) ==
    [a \in Axes |-> <<SetMin({v[a] : v \in m.ones}), SetMax({v[a] : v \in m.ones})>>]

(***************************************************************************)
(* numpy basic slicing a[lo:hi+1] on one axis of length n, lo >= 0.        *)
(***************************************************************************)
SliceStart(lo, n) == Min(lo, n)
SliceLen(lo, hi, n) == Max(0, Min(hi + 1, n) - Min(lo, n))

SliceView(v, bb) ==
    [off |-> [a \in Axes |-> v.off[a] + SliceStart(bb[a][1], v.shape[a])],
     shape |-> [a \in Axes |-> SliceLen(bb[a][1], bb[a][2], v.shape[a])]]

SliceMask(m, bb) ==
    [shape |-> [a \in Axes |-> SliceLen(bb[a][1], bb[a][2], m.shape[a])],
     ones |-> {[a \in Axes |-> v[a] - bb[a][1]] :
                 v \in {w \in m.ones : \A a \in Axes :
                           bb[a][1] <= w[a] /\ w[a] <= bb[a][2]}}]

(***************************************************************************)
(* compute_box: the pieces of its body.                                    *)
(***************************************************************************)
\* "box" in box_string
HasBox(s) == Contains(s, BOX)

\* "full" in box_string
HasFull(s) == Contains(s, FULL)

\* comp = box_string == "box"
IsComp(s) == s = BOX

\* The text float() is applied to: after "box" when ind_box == 0, before it
\* otherwise.
IsMarginForm(s) == Find(s, BOX) = 0
NumberText(s) ==
    IF IsMarginForm(s) THEN SubSeq(s, Find(s, BOX) + 4, Len(s))
    ELSE SubSeq(s, 1, Find(s, BOX))

\* n_v = np.array([n_v, n_v, n_v]).astype(int)
MarginFromVoxels(f) == [a \in Axes |-> TruncInt(f.num, f.den)]

\* size_box = np.diff(box_bound, axis=1) + 1
SizeBox(bb) == [a \in Axes |-> bb[a][2] - bb[a][1] + 1]

\* new_box = size_box * factor; n_v = np.round((new_box - size_box)/2.0)
MarginFromFactorHalfUp(bb, f) ==
    [a \in Axes |-> RoundHalfUp(SizeBox(bb)[a] * (f.num - f.den), 2 * f.den)]
MarginFromFactor(bb, f) ==
    [a \in Axes |-> RoundHalfEven(SizeBox(bb)[a] * (f.num - f.den), 2 * f.den)]

\* border = box_bound -/+ n_v, then border + 1
Border(bb, nv) == [a \in Axes |-> <<bb[a][1] - nv[a] + 1, bb[a][2] + nv[a] + 1>>]

\* check1 + check2 + check3 + check4 == 6
CheckLoose(border, shape) ==
    /\ Cardinality({a \in Axes : border[a][1] >= 0}) = 3
    /\ \A a \in Axes : border[a][2] <= shape[a] + 1
Check(border, shape) ==
    /\ Cardinality({a \in Axes : border[a][1] > 0}) = 3
    /\ \A a \in Axes : border[a][2] <= shape[a]

\* n_v = np.floor(n_v / 2.0)
HalveCeil(nv) == [a \in Axes |-> (nv[a] + 1) \div 2]
Halve(nv) == [a \in Axes |-> nv[a] \div 2]

\* np.sum(n_v) == 0.0
SumZero(nv) == nv[1] + nv[2] + nv[3] = 0

Zero3 == [a \in Axes |-> 0]

\* box_bound[a, 0] -= n_v[a]; box_bound[a, 1] += n_v[a]
Expand(bb, nv) == [a \in Axes |-> <<bb[a][1] - nv[a], bb[a][2] + nv[a]>>]

\* new_spatial_ref: imref3d(size_box, res...) with its world limits shifted so
\* that the first limit is intrinsicToWorld(spatial_ref, box minimum) - res/2.
NewSpatialRef(R, bb) ==
    LET fresh == Imref3d(SizeBox(bb), R.PixelExtentInWorld)
        limit(a) == IntrinsicToWorld(R, a, bb[a][1])
        shift(a) == fresh.WorldLimits[a][1] - (limit(a) - R.PixelExtentInWorld[a])
    IN  [fresh EXCEPT !.WorldLimits =
            [a \in Axes |-> <<fresh.WorldLimits[a][1] - shift(a),
                              fresh.WorldLimits[a][2] - shift(a)>>]]

\* return vol, roi, new_spatial_ref
Returned(v, m, R) == [vol |-> v, roi |-> m, ref |-> R]

\* The "full" branch: new_spatial_ref = spatial_ref, vol and roi untouched.
FullResultRebuilt(v, m, R) == Returned(v, m, Imref3d(R.ImageSize, R.PixelExtentInWorld))
FullResult(v, m, R) == Returned(v, m, R)

\* The "box" branch after the margin is settled (lines 93-132).
BoxResult(v, m, R, bb) == Returned(SliceView(v, bb), SliceMask(m, bb), NewSpatialRef(R, bb))

(***************************************************************************)
(* compute_box: the actions.                                               *)
(***************************************************************************)
\* Lines 48-63 and 89-91: the "box" branch up to the margin loop.
BoxStart ==
    /\ pc = "start"
    /\ HasBox(box_string)
    /\ bb_calls' = bb_calls + 1
    /\ IF IsEmptyMask(roi)
       THEN /\ pc' = "error"
            /\ err' = "EmptyROI"
            /\ UNCHANGED <<box_bound, n_v>>
       ELSE IF IsComp(box_string)
       THEN /\ box_bound' = ComputeBoundingBox(roi)
            /\ n_v' = Zero3
            /\ pc' = "crop"
            /\ err' = err
       ELSE LET f == ParseFloat(NumberText(box_string))
                bb == ComputeBoundingBox(roi)
            IN  IF ~f.ok
                THEN /\ pc' = "error"
                     /\ err' = "ValueError"
                     /\ box_bound' = bb
                     /\ n_v' = n_v
                ELSE /\ box_bound' = bb
                     /\ n_v' = IF IsMarginForm(box_string)
                               THEN MarginFromVoxels(f)
                               ELSE MarginFromFactor(bb, f)
                     /\ pc' = "loop"
                     /\ err' = err
    /\ UNCHANGED <<vol, roi, spatial_ref, box_string, result>>
    /\ UNCHANGED maskVars
    /\ UNCHANGED dicomVars

\* Lines 66-88: one iteration of the while loop.
LoopIter ==
    /\ pc = "loop"
    /\ IF Check(Border(box_bound, n_v), vol.shape)
       THEN /\ pc' = "crop"
            /\ n_v' = n_v
       ELSE IF SumZero(Halve(n_v))
       THEN /\ pc' = "crop"
            /\ n_v' = Zero3
       ELSE /\ pc' = "loop"
            /\ n_v' = Halve(n_v)
    /\ UNCHANGED <<vol, roi, spatial_ref, box_string, box_bound, bb_calls, result, err>>
    /\ UNCHANGED maskVars
    /\ UNCHANGED dicomVars

\* Lines 93-132 and 137: expand, slice, derive the reference, return.
Crop ==
    /\ pc = "crop"
    /\ box_bound' = Expand(box_bound, n_v)
    /\ result' = {BoxResult(vol, roi, spatial_ref, Expand(box_bound, n_v))}
    /\ pc' = "done"
    /\ UNCHANGED <<vol, roi, spatial_ref, box_string, n_v, bb_calls, err>>
    /\ UNCHANGED maskVars
    /\ UNCHANGED dicomVars

\* Lines 134-137: the "full" branch.
FullReturn ==
    /\ pc = "start"
    /\ ~HasBox(box_string)
    /\ HasFull(box_string)
    /\ result' = {FullResult(vol, roi, spatial_ref)}
    /\ pc' = "done"
    /\ UNCHANGED <<vol, roi, spatial_ref, box_string, box_bound, n_v, bb_calls, err>>
    /\ UNCHANGED maskVars
    /\ UNCHANGED dicomVars

\* Line 137 with neither branch taken: new_spatial_ref is unbound.
NoBranch ==
    /\ pc = "start"
    /\ ~HasBox(box_string)
    /\ ~HasFull(box_string)
    /\ pc' = "error"
    /\ err' = "UnboundLocalError"
    /\ UNCHANGED <<vol, roi, spatial_ref, box_string, box_bound, n_v, bb_calls, result>>
    /\ UNCHANGED maskVars
    /\ UNCHANGED dicomVars

(***************************************************************************)
(* compute_box: the inputs.                                                *)
(***************************************************************************)
ImageShape == <<DimX, DimY, DimZ>>

\* Masks: the all-zero mask, and masks whose set voxels are the two opposite
\* corners of a box (every bounding box of the grid arises).
Voxels(shape) ==
    {<<x, y, z>> : x \in 0..(shape[1] - 1), y \in 0..(shape[2] - 1), z \in 0..(shape[3] - 1)}
Masks(shape) ==
    {[shape |-> shape, ones |-> {}]}
    \cup {[shape |-> shape, ones |-> {pq[1], pq[2]}] :
            pq \in {c \in Voxels(shape) \X Voxels(shape) :
                        \A a \in Axes : c[1][a] <= c[2][a]}}

\* Volume shapes: the mask's, one voxel less on every axis, one more on axis 0.
VolShapes(shape) ==
    {shape,
     [a \in Axes |-> Max(1, shape[a] - 1)],
     [a \in Axes |-> IF a = 1 THEN shape[a] + 1 ELSE shape[a]]}

\* A reference of the given size and extents whose limits start at origin.
RefAt(size, ext, origin) ==
    [ImageSize |-> size,
     PixelExtentInWorld |-> ext,
     WorldLimits |-> [a \in Axes |-> <<origin[a], origin[a] + 2 * size[a] * ext[a]>>]]

Refs(size) == {RefAt(size, <<1, 1, 1>>, <<0, 0, 0>>), RefAt(size, <<2, 1, 3>>, <<-7, 4, 1>>)}

BoxStrings ==
    {FULL, BOX, <<"n", "o", "n", "e">>, <<"x">> \o BOX,
     BOX \o <<"1", ".", "5">>,
     <<"0", ".", "5">> \o BOX, <<"1", ".", "5">> \o BOX, <<"2", ".", "5">> \o BOX}
    \cup {BOX \o Dec(n) : n \in 0..MaxMargin}
    \cup {Dec(f) \o BOX : f \in 1..MaxFactor}

\* The scenario of the specification, section 8: a tight box of extent
\* [10, 10, 5] well inside the volume, crop "2box".
ScenarioShape == <<22, 22, 11>>
ScenarioMask == [shape |-> ScenarioShape, ones |-> {<<6, 6, 3>>, <<15, 15, 7>>}]

InitBoxLocals ==
    /\ pc = "start"
    /\ DicomIdle
    /\ box_bound = [a \in Axes |-> <<0, 0>>]
    /\ n_v = Zero3
    /\ bb_calls = 0
    /\ result = {}
    /\ err = ""
    /\ roi_xyz = << >>
    /\ orientation = ""
    /\ roi_mask = {}
    /\ c_c = 0
    /\ grid = <<0, 0>>
    /\ select_slice = {}
    /\ inpoly = {}

InitBox ==
    /\ InitBoxLocals
    /\ \/ /\ roi \in Masks(ImageShape)
          /\ \E s \in VolShapes(ImageShape) : vol = [off |-> Zero3, shape |-> s]
          /\ box_string \in BoxStrings
       \/ /\ roi = ScenarioMask
          /\ vol = [off |-> Zero3, shape |-> ScenarioShape]
          /\ box_string \in {Dec(2) \o BOX, BOX \o Dec(1)}
    /\ spatial_ref \in Refs(vol.shape)

NextBox == BoxStart \/ LoopIter \/ Crop \/ FullReturn \/ NoBranch

SpecBox == InitBox /\ [][NextBox]_vars

(***************************************************************************)
(* mode (MEDimage/utils/mode.py), after the specification, section 4.2:    *)
(* the most frequent value, the smallest one among ties.                   *)
(***************************************************************************)
Count(q, x) == Cardinality({i \in 1..Len(q) : q[i] = x})

Mode(q) ==
    SetMin({x \in {q[i] : i \in 1..Len(q)} :
               \A y \in {q[i] : i \in 1..Len(q)} : Count(q, y) <= Count(q, x)})

(***************************************************************************)
(* inpolygon (MEDimage/utils/inpolygon.py), after the specification,       *)
(* section 4.3: even-odd rule, a ray towards +x, boundary points inside,   *)
(* the polygon closed from its last vertex to its first.  Coordinates are  *)
(* integers: a query point and the vertices are scaled alike.              *)
(***************************************************************************)
OnEdge(q, A, B) ==
    /\ (B[1] - A[1]) * (q[2] - A[2]) = (B[2] - A[2]) * (q[1] - A[1])
    /\ Min(A[1], B[1]) <= q[1] /\ q[1] <= Max(A[1], B[1])
    /\ Min(A[2], B[2]) <= q[2] /\ q[2] <= Max(A[2], B[2])

Crosses(q, A, B) ==
    /\ (A[2] > q[2]) # (B[2] > q[2])
    /\ IF B[2] > A[2]
       THEN (q[1] - A[1]) * (B[2] - A[2]) < (q[2] - A[2]) * (B[1] - A[1])
       ELSE (q[1] - A[1]) * (B[2] - A[2]) > (q[2] - A[2]) * (B[1] - A[1])

NextVertex(V, e) == V[IF e = Len(V) THEN 1 ELSE e + 1]

Inside(q, V) ==
    /\ Cardinality({V[e] : e \in 1..Len(V)}) >= 3
    /\ \/ \E e \in 1..Len(V) : OnEdge(q, V[e], NextVertex(V, e))
       \/ Cardinality({e \in 1..Len(V) : Crosses(q, V[e], NextVertex(V, e))}) % 2 = 1

\* inpolygon(x_q, y_q, x_v, y_v) on the meshgrid of get_polygon_mask:
\* x_q[i, j] = j and y_q[i, j] = i for i < len(y_q), j < len(x_q).  The result
\* has the shape of x_q; it is the set of its true entries <<i, j>>.  The
\* vertices are the rationals x_v[r].num/x_v[r].den, y_v[r].num/y_v[r].den.
InPolygon(g, x_v, y_v) ==
    IF Len(x_v) = 0 THEN {}
    ELSE LET dx == x_v[1].den
             dy == y_v[1].den
             V == [r \in 1..Len(x_v) |-> <<x_v[r].num * dy, y_v[r].num * dx>>]
         IN  {ij \in (0..(g[2] - 1)) \X (0..(g[1] - 1)) :
                 Inside(<<ij[2] * dx * dy, ij[1] * dx * dy>>, V)}

(***************************************************************************)
(* get_polygon_mask: the pieces of its body.                               *)
(***************************************************************************)
\* Lines 38-52: <<a, b, c>> as model axes; << >> stands for the raise.
AxisPermDefaultAxial(o) ==
    IF o = "Sagittal" THEN <<2, 3, 1>>
    ELSE IF o = "Coronal" THEN <<1, 3, 2>>
    ELSE <<1, 2, 3>>
AxisPerm(o) ==
    IF o = "Axial" THEN <<1, 2, 3>>
    ELSE IF o = "Sagittal" THEN <<2, 3, 1>>
    ELSE IF o = "Coronal" THEN <<1, 3, 2>>
    ELSE << >>

\* Lines 31-36: points, one row of three rationals per row of roi_xyz.
Points(R, xyz) ==
    [r \in 1..Len(xyz) |-> [a \in Axes |-> WorldToIntrinsic(R, a, xyz[r][a])]]

\* Line 54: K = np.round(points[:, c])
KOf(R, xyz, c) ==
    [r \in 1..Len(xyz) |->
        RoundHalfEven(Points(R, xyz)[r][c].num, Points(R, xyz)[r][c].den)]

\* The elements of a finite set of integers, increasing.
RECURSIVE Sorted(_)
Sorted(S) == IF S = {} THEN << >> ELSE <<SetMin(S)>> \o Sorted(S \ {SetMin(S)})

\* Line 55: closed_contours = np.unique(roi_xyz[:, 3])
ClosedContours(xyz) == Sorted({xyz[r][4] : r \in 1..Len(xyz)})

\* Line 61: the rows selected by ind, in order.
Ind(xyz, id) == Sorted({r \in 1..Len(xyz) : xyz[r][4] = id})

\* Line 65: select_slice = mode(K[ind]).astype(int)
SelectSliceRoundOfMode(R, xyz, c, id) ==
    LET rows == Ind(xyz, id)
    IN  RoundHalfEven(Mode([i \in 1..Len(rows) |-> Points(R, xyz)[rows[i]][c].num]),
                      Points(R, xyz)[rows[1]][c].den)
SelectSlice(R, xyz, c, id) ==
    LET rows == Ind(xyz, id)
    IN  Mode([i \in 1..Len(rows) |-> KOf(R, xyz, c)[rows[i]]])

\* Line 66: inpoly = inpolygon(x_q, y_q, points[ind, a], points[ind, b])
InPoly(R, xyz, g, a, b, id) ==
    LET rows == Ind(xyz, id)
    IN  InPolygon(g, [i \in 1..Len(rows) |-> Points(R, xyz)[rows[i]][a]],
                     [i \in 1..Len(rows) |-> Points(R, xyz)[rows[i]][b]])

\* Indexing an axis of length n with k: a negative k counts from the end;
\* out of -n..n-1 is an IndexError.
IndexInRange(k, n) == -n <= k /\ k < n
PyIndex(k, n) == IF k < 0 THEN n + k ELSE k

\* np.logical_or of the slice, of shape (s0, s1), with inpoly, of the shape
\* (len(y_q), len(x_q)) of the meshgrid, assigned back to the slice: the
\* shapes must broadcast, to the shape of the slice.
OrAssignable(s0, s1, g) ==
    /\ s0 = g[2] \/ s0 = 1 \/ g[2] = 1
    /\ s1 = g[1] \/ s1 = 1 \/ g[1] = 1
    /\ Max(s0, g[2]) = s0
    /\ Max(s1, g[1]) = s1
    /\ s0 = g[2] /\ s1 = g[1]

\* Lines 67-68: roi_mask[:, :, k] = np.logical_or(roi_mask[:, :, k], inpoly)
XorPlane(mask, k, plane) ==
    (mask \ {<<ij[1], ij[2], k>> : ij \in plane})
        \cup ({<<ij[1], ij[2], k>> : ij \in plane} \ mask)
OrPlane(mask, k, plane) == mask \cup {<<ij[1], ij[2], k>> : ij \in plane}

(***************************************************************************)
(* get_polygon_mask: the actions.                                          *)
(***************************************************************************)
\* Lines 28-58: up to the loop over the closed contours.
MaskStart ==
    /\ pc = "start"
    /\ roi_mask' = {}
    /\ IF AxisPerm(orientation) = << >>
       THEN /\ pc' = "error"
            /\ err' = "ValueError"
            /\ grid' = grid
       ELSE /\ pc' = "loop"
            /\ err' = err
            /\ grid' = <<spatial_ref.ImageSize[1], spatial_ref.ImageSize[2]>>
    /\ c_c' = 0
    /\ UNCHANGED <<spatial_ref, result, roi_xyz, orientation, select_slice, inpoly>>
    /\ UNCHANGED boxVars
    /\ UNCHANGED dicomVars

\* Lines 60-68: one iteration of the loop.
ContourIter ==
    /\ pc = "loop"
    /\ c_c < Len(ClosedContours(roi_xyz))
    /\ LET id == ClosedContours(roi_xyz)[c_c + 1]
           abc == AxisPerm(orientation)
           s_z == spatial_ref.ImageSize
           k == SelectSlice(spatial_ref, roi_xyz, abc[3], id)
           plane == InPoly(spatial_ref, roi_xyz, grid, abc[1], abc[2], id)
       IN  /\ select_slice' = {k}
           /\ inpoly' = {plane}
           /\ IF ~IndexInRange(k, s_z[3])
              THEN /\ pc' = "error"
                   /\ err' = "IndexError"
                   /\ UNCHANGED <<roi_mask, c_c>>
              ELSE IF ~OrAssignable(s_z[1], s_z[2], grid)
              THEN /\ pc' = "error"
                   /\ err' = "ValueError"
                   /\ UNCHANGED <<roi_mask, c_c>>
              ELSE /\ roi_mask' = OrPlane(roi_mask, PyIndex(k, s_z[3]), plane)
                   /\ c_c' = c_c + 1
                   /\ UNCHANGED <<pc, err>>
    /\ UNCHANGED <<spatial_ref, result, roi_xyz, orientation, grid>>
    /\ UNCHANGED boxVars
    /\ UNCHANGED dicomVars

\* Line 70: return roi_mask
MaskReturn ==
    /\ pc = "loop"
    /\ c_c = Len(ClosedContours(roi_xyz))
    /\ result' = {roi_mask}
    /\ pc' = "done"
    /\ UNCHANGED <<spatial_ref, err, roi_xyz, orientation, roi_mask, c_c, grid,
                   select_slice, inpoly>>
    /\ UNCHANGED boxVars
    /\ UNCHANGED dicomVars

(***************************************************************************)
(* get_polygon_mask: the inputs.  Contours are rectangles whose vertices   *)
(* lie at half-voxel steps of the grid: an intrinsic coordinate h/2 is     *)
(* given by the integer h, and placed in the world by the reference.       *)
(***************************************************************************)
Orientations == {"Axial", "Sagittal", "Coronal", "axial", "Oblique"}

ImageSizes == {<<GridN, GridN, GridN>>, <<GridN, GridN + 1, GridN>>,
               <<GridN, GridN, GridN + 1>>}

\* The world coordinate (doubled) of the intrinsic coordinate h/2 on axis a.
WorldOfHalf(R, a, h) == R.WorldLimits[a][1] + (h - 1) * R.PixelExtentInWorld[a]

\* A contour row: u, v in the plane of the orientation, w across it.
Layout(o) == IF AxisPerm(o) = << >> THEN <<1, 2, 3>> ELSE AxisPerm(o)
Row(R, o, u, v, w, id) ==
    [n \in 1..4 |->
        IF n = 4 THEN id
        ELSE IF n = Layout(o)[1] THEN WorldOfHalf(R, n, u)
        ELSE IF n = Layout(o)[2] THEN WorldOfHalf(R, n, v)
        ELSE WorldOfHalf(R, n, w)]

\* The four rows of a rectangle <<<<u0, u1>>, <<v0, v1>>>>, the slice
\* coordinate of its vertices being base + jitter.
Rectangle(R, o, rect, base, jitter, id) ==
    <<Row(R, o, rect[1][1], rect[2][1], base + jitter[1], id),
      Row(R, o, rect[1][2], rect[2][1], base + jitter[2], id),
      Row(R, o, rect[1][2], rect[2][2], base + jitter[3], id),
      Row(R, o, rect[1][1], rect[2][2], base + jitter[4], id)>>

FullSpan == <<0, 2 * (GridN - 1)>>
OuterRects == {<<FullSpan, FullSpan>>, <<<<0, 2>>, <<0, 4>>>>,
               <<<<1, 3>>, <<2, 4>>>>, <<<<2, 4>>, <<2, 4>>>>}
InnerRects == {<<<<2, 4>>, <<2, 4>>>>, <<<<1, 3>>, <<0, 2>>>>}
Jitters == {<<0, 0, 0, 0>>, <<0, 1, 1, 0>>, <<0, 1, 2, 3>>, <<0, 0, 1, 1>>}
OuterBases == {2 * k : k \in (-1)..GridN}
InnerBases == {2, 4}

FirstContours(R, o, id) ==
    {Rectangle(R, o, rect, base, jitter, id) :
        rect \in OuterRects, base \in OuterBases, jitter \in Jitters}
SecondContours(R, o, id) ==
    {Rectangle(R, o, rect, base, <<0, 0, 0, 0>>, id) :
        rect \in InnerRects, base \in InnerBases}

ContourSets(R, o) ==
    {<< >>}
    \cup FirstContours(R, o, 1)
    \cup {p \o q : p \in FirstContours(R, o, 1), q \in SecondContours(R, o, 2)}
    \cup {p \o q : p \in FirstContours(R, o, 2), q \in SecondContours(R, o, 1)}

InitMask ==
    /\ pc = "start"
    /\ DicomIdle
    /\ vol = [off |-> Zero3, shape |-> <<1, 1, 1>>]
    /\ roi = [shape |-> <<1, 1, 1>>, ones |-> {}]
    /\ box_string = << >>
    /\ box_bound = [a \in Axes |-> <<0, 0>>]
    /\ n_v = Zero3
    /\ bb_calls = 0
    /\ result = {}
    /\ err = ""
    /\ roi_mask = {}
    /\ c_c = 0
    /\ grid = <<0, 0>>
    /\ select_slice = {}
    /\ inpoly = {}
    /\ orientation \in Orientations
    /\ \E size \in ImageSizes : spatial_ref \in Refs(size)
    /\ roi_xyz \in ContourSets(spatial_ref, orientation)

NextMask == MaskStart \/ ContourIter \/ MaskReturn

SpecMask == InitMask /\ [][NextMask]_vars

(***************************************************************************)
(* process_dicom_scan_files (process_dicom_scan_files.py).                 *)
(*                                                                         *)
(* pathImages is {} for None and {n} for a list of n readable DICOM files; *)
(* every image header carries the attributes in header.  pathRS is {} for  *)
(* None and {l} for a list l of RTstruct files, each known by the name     *)
(* fields it carries and the ROINames of its StructureSetROISequence.      *)
(* path_save is {} for None and {p} for a path.  A local that is not bound *)
(* yet is {}.  The value the function returns is kept as an optional too:  *)
(* result = {MEDimg} after "return MEDimg", result = {{}} after a return   *)
(* of None.                                                                *)
(***************************************************************************)
HeaderAttrs == {"Modality", "PatientPosition", "patient_id", "series_description"}
HeaderValue(a) ==
    CASE a = "Modality" -> "CT"
      [] a = "PatientPosition" -> "HFS"
      [] a = "patient_id" -> "P1"
      [] a = "series_description" -> "SD"

name_set_strings ==
    <<"StructureSetName", "StructureSetDescription", "series_description", "SeriesInstanceUID">>

\* MEDimage(): nothing is filled in yet.
NewMEDimage ==
    [orientation |-> "", scanRot |-> FALSE, data |-> FALSE, type |-> << >>,
     spatial_ref |-> FALSE, dicom_h |-> FALSE, patientPosition |-> "",
     patient_id |-> "", ROI |-> << >>]

TheMEDimg == CHOOSE m \in MEDimg : TRUE
n_slices == CHOOSE n \in pathImages : TRUE
TheRS == CHOOSE l \in dicom_rs_full : TRUE

\* The except clauses: "raise x" inside the outer try lands in its handler.
Caught(x) == /\ caught' = {x}
             /\ pc' = "handler"

\* dist.index(max(dist)) to the orientation (lines 103-109).
OrientationOf(index) ==
    IF index = 0 THEN "Sagittal" ELSE IF index = 1 THEN "Coronal" ELSE "Axial"

\* mid = round(n_slices/2); dicom_hi[mid+1] must exist (lines 95-96).
Mid(n) == RoundHalfEven(n, 2)
HasNextSlice(n) == Mid(n) + 1 < n

\* The first of name_set_strings the RTstruct file carries, {} when none
\* (lines 194-198).
FirstNameField(f) ==
    LET hit == {i \in 1..Len(name_set_strings) : name_set_strings[i] \in f.fields}
    IN  IF hit = {} THEN {} ELSE {name_set_strings[SetMin(hit)]}

\* Line 171: pathRS is not None and len(pathRS) > 0.
HasRTstruct(p) == p # {} /\ \A l \in p : Len(l) > 0

\* Lines 81-91: the argument check, MEDimage(), the read of the images.
DicomStart ==
    /\ pc = "start"
    /\ IF pathImages = {}
       THEN /\ err' = "ValueError"
            /\ pc' = "done"
            /\ UNCHANGED MEDimg
       ELSE /\ MEDimg' = {NewMEDimage}
            /\ pc' = "orientation"
            /\ err' = err
    /\ UNCHANGED <<pathImages, pathRS, path_save, header, dicom_rs_full, rs, roi_idx,
                   contour_num, name_set, caught, stdout, saved, result>>
    /\ UNCHANGED <<boxVars, maskVars, spatial_ref>>

\* Lines 94-111: the scan orientation from two neighbouring slices.
Orient ==
    /\ pc = "orientation"
    /\ IF ~HasNextSlice(n_slices)
       THEN /\ Caught("IndexError")
            /\ UNCHANGED MEDimg
       ELSE /\ \E index \in 0..2 :
                   MEDimg' = {[TheMEDimg EXCEPT !.orientation = OrientationOf(index)]}
            /\ pc' = "combine"
            /\ UNCHANGED caught
    /\ UNCHANGED <<pathImages, pathRS, path_save, header, dicom_rs_full, rs, roi_idx,
                   contour_num, name_set, stdout, saved, result, err>>
    /\ UNCHANGED <<boxVars, maskVars, spatial_ref>>

\* Lines 116-156: combineSlices, scanRot, data, type and the spatial reference.
Combine ==
    /\ pc = "combine"
    /\ \E ok \in BOOLEAN, rotated \in BOOLEAN :
          IF ~ok
          THEN /\ Caught("ValueError")
               /\ UNCHANGED MEDimg
          ELSE LET m1 == [TheMEDimg EXCEPT !.scanRot = rotated, !.data = TRUE]
               IN  IF "Modality" \notin header
                   THEN /\ Caught("AttributeError")
                        /\ MEDimg' = {m1}
                   ELSE /\ MEDimg' = {[m1 EXCEPT !.type = <<HeaderValue("Modality"), "scan">>,
                                                 !.spatial_ref = TRUE]}
                        /\ pc' = "headers"
                        /\ UNCHANGED caught
    /\ UNCHANGED <<pathImages, pathRS, path_save, header, dicom_rs_full, rs, roi_idx,
                   contour_num, name_set, stdout, saved, result, err>>
    /\ UNCHANGED <<boxVars, maskVars, spatial_ref>>

\* Lines 159-180: the headers of the images, and those of the RTstruct files
\* when pathRS is a non-empty list.
ReadHeaders ==
    /\ pc = "headers"
    /\ MEDimg' = {[TheMEDimg EXCEPT !.dicom_h = TRUE]}
    /\ dicom_rs_full' = IF HasRTstruct(pathRS) THEN pathRS ELSE dicom_rs_full
    /\ pc' = "gather"
    /\ UNCHANGED <<pathImages, pathRS, path_save, header, rs, roi_idx, contour_num,
                   name_set, caught, stdout, saved, result, err>>
    /\ UNCHANGED <<boxVars, maskVars, spatial_ref>>

\* Lines 183-184: n_rs reads the local dicom_rs_full, bound or not.
Gather ==
    /\ pc = "gather"
    /\ IF dicom_rs_full = {}
       THEN /\ Caught("UnboundLocalError")
            /\ UNCHANGED <<contour_num, rs, roi_idx>>
       ELSE /\ contour_num' = 0
            /\ rs' = 0
            /\ roi_idx' = 0
            /\ pc' = "roi_loop"
            /\ UNCHANGED caught
    /\ UNCHANGED <<pathImages, pathRS, path_save, header, MEDimg, dicom_rs_full,
                   name_set, stdout, saved, result, err>>
    /\ UNCHANGED <<boxVars, maskVars, spatial_ref>>

n_rs == Len(TheRS)
n_roi == Len(TheRS[rs + 1].rois)
ROIName(k) == TheRS[rs + 1].rois[k + 1]
NewROI == [ROIname |-> ROIName(roi_idx), indexes |-> "None", nameSet |-> << >>,
           nameSetInfo |-> ""]
WithROI(r) == [TheMEDimg EXCEPT !.ROI = Append(TheMEDimg.ROI, r)]

\* Lines 185-251: the head of the two loops and one pass of the inner body.
RoiLoop ==
    /\ pc = "roi_loop"
    /\ IF rs >= n_rs
       THEN /\ pc' = "final"
            /\ UNCHANGED <<rs, roi_idx, contour_num, name_set, MEDimg, caught, stdout>>
       ELSE IF roi_idx >= n_roi
       THEN /\ rs' = rs + 1
            /\ roi_idx' = 0
            /\ UNCHANGED <<pc, contour_num, name_set, MEDimg, caught, stdout>>
       ELSE IF roi_idx # 0 /\ ROIName(roi_idx) = ROIName(roi_idx - 1)
       THEN /\ roi_idx' = roi_idx + 1
            /\ UNCHANGED <<pc, rs, contour_num, name_set, MEDimg, caught, stdout>>
       ELSE
         /\ name_set' = IF FirstNameField(TheRS[rs + 1]) = {} THEN name_set
                        ELSE {<<rs, f>> : f \in FirstNameField(TheRS[rs + 1])}
         /\ IF name_set' = {}
            THEN /\ Caught("UnboundLocalError")
                 /\ MEDimg' = {WithROI(NewROI)}
                 /\ UNCHANGED <<rs, roi_idx, contour_num, stdout>>
            ELSE LET ns == CHOOSE x \in name_set' : TRUE
                     named == [NewROI EXCEPT !.nameSet = ns, !.nameSetInfo = ns[2]]
                 IN  \E ok \in BOOLEAN :
                        IF ok
                        THEN /\ MEDimg' = {WithROI([named EXCEPT !.indexes = "nonzero"])}
                             /\ contour_num' = contour_num + 1
                             /\ roi_idx' = roi_idx + 1
                             /\ UNCHANGED <<pc, rs, caught, stdout>>
                        ELSE IF "patient_id" \notin header
                        THEN /\ Caught("AttributeError")
                             /\ MEDimg' = {WithROI(named)}
                             /\ UNCHANGED <<rs, roi_idx, contour_num, stdout>>
                        ELSE /\ stdout' = Append(stdout, "roi error")
                             /\ MEDimg' = {WithROI([named EXCEPT !.indexes = "NaN"])}
                             /\ contour_num' = contour_num + 1
                             /\ roi_idx' = roi_idx + 1
                             /\ UNCHANGED <<pc, rs, caught>>
    /\ UNCHANGED <<pathImages, pathRS, path_save, header, dicom_rs_full, saved,
                   result, err>>
    /\ UNCHANGED <<boxVars, maskVars, spatial_ref>>

\* Lines 253-258, and the end of the try block: the function has no return
\* statement after it, so the call returns None.
Final ==
    /\ pc = "final"
    /\ IF "PatientPosition" \notin header
       THEN /\ Caught("AttributeError")
            /\ UNCHANGED <<MEDimg, saved, result>>
       ELSE LET m1 == [TheMEDimg EXCEPT !.patientPosition = HeaderValue("PatientPosition")]
                m2 == [m1 EXCEPT !.patient_id = HeaderValue("patient_id")]
            IN  IF "patient_id" \notin header
                THEN /\ Caught("AttributeError")
                     /\ MEDimg' = {m1}
                     /\ UNCHANGED <<saved, result>>
                ELSE IF path_save # {} /\ "series_description" \notin header
                THEN /\ Caught("AttributeError")
                     /\ MEDimg' = {m2}
                     /\ UNCHANGED <<saved, result>>
                ELSE /\ MEDimg' = {m2}
                     /\ saved' = IF path_save # {}
                                 THEN {<<m2, HeaderValue("series_description")>>}
                                 ELSE saved
                     /\ result' = {{}}
                     /\ pc' = "done"
                     /\ UNCHANGED caught
    /\ UNCHANGED <<pathImages, pathRS, path_save, header, dicom_rs_full, rs, roi_idx,
                   contour_num, name_set, stdout, err>>
    /\ UNCHANGED <<boxVars, maskVars, spatial_ref>>

\* Lines 260-262: the handler prints dicom_hi[0].patient_id and the error,
\* and returns MEDimg; what the print raises leaves the function.
Handler ==
    /\ pc = "handler"
    /\ pc' = "done"
    /\ IF n_slices = 0
       THEN /\ err' = "IndexError"
            /\ UNCHANGED <<stdout, result>>
       ELSE IF "patient_id" \notin header
       THEN /\ err' = "AttributeError"
            /\ UNCHANGED <<stdout, result>>
       ELSE /\ stdout' = Append(stdout, CHOOSE x \in caught : TRUE)
            /\ result' = {MEDimg}
            /\ err' = err
    /\ UNCHANGED <<pathImages, pathRS, path_save, header, MEDimg, dicom_rs_full, rs,
                   roi_idx, contour_num, name_set, caught, saved>>
    /\ UNCHANGED <<boxVars, maskVars, spatial_ref>>

\* The inputs of process_dicom_scan_files.
Headers == {HeaderAttrs} \cup {HeaderAttrs \ {a} : a \in HeaderAttrs}
ROINames == {"GTV", "PTV"}
RoiLists == UNION {[1..n -> ROINames] : n \in 0..MaxRoi}
FieldSets == {{}, {"SeriesInstanceUID"}, {"StructureSetName", "SeriesInstanceUID"}}
RTstructs == [fields : FieldSets, rois : RoiLists]
RTstructLists == UNION {[1..n -> RTstructs] : n \in 0..MaxRS}

InitDicom ==
    /\ pc = "start"
    /\ pathImages \in {{}} \cup {{n} : n \in 0..MaxSlices}
    /\ pathRS \in {{}} \cup {{l} : l \in RTstructLists}
    /\ path_save \in {{}, {"path_save"}}
    /\ header \in Headers
    /\ MEDimg = {}
    /\ dicom_rs_full = {}
    /\ rs = 0
    /\ roi_idx = 0
    /\ contour_num = 0
    /\ name_set = {}
    /\ caught = {}
    /\ stdout = << >>
    /\ saved = {}
    /\ result = {}
    /\ err = ""
    /\ vol = [off |-> Zero3, shape |-> <<1, 1, 1>>]
    /\ roi = [shape |-> <<1, 1, 1>>, ones |-> {}]
    /\ spatial_ref = RefAt(<<1, 1, 1>>, <<1, 1, 1>>, <<0, 0, 0>>)
    /\ box_string = << >>
    /\ box_bound = [a \in Axes |-> <<0, 0>>]
    /\ n_v = Zero3
    /\ bb_calls = 0
    /\ roi_xyz = << >>
    /\ orientation = ""
    /\ roi_mask = {}
    /\ c_c = 0
    /\ grid = <<0, 0>>
    /\ select_slice = {}
    /\ inpoly = {}

NextDicom ==
    DicomStart \/ Orient \/ Combine \/ ReadHeaders \/ Gather \/ RoiLoop \/ Final \/ Handler

SpecDicom == InitDicom /\ [][NextDicom]_vars

(***************************************************************************)
(* Properties of compute_box.                                              *)
(***************************************************************************)
TightBox == ComputeBoundingBox(roi)
Extent(bb) == [a \in Axes |-> bb[a][2] - bb[a][1] + 1]
TWOBOX == <<"2">> \o BOX

\* The crop specs that compute a box: "box", "box<N>", "<F>box".
ComputesBox(s) ==
    /\ HasBox(s)
    /\ IsComp(s) \/ ParseFloat(NumberText(s)).ok

\* The request is a margin N >= 0 or a factor F >= 1.
GrowingRequest(s) ==
    /\ HasBox(s)
    /\ ~IsComp(s)
    /\ ParseFloat(NumberText(s)).ok
    /\ IsMarginForm(s) \/ ParseFloat(NumberText(s)).num >= ParseFloat(NumberText(s)).den

BoxReturned == pc = "done" /\ HasBox(box_string)
TheResult == CHOOSE r \in result : TRUE

\* C1 (as claimed): after a crop that computes a box on a non-empty mask, each
\* retained voxel has the same world coordinate on every axis under the new
\* reference at its new index as under the original reference at its old index
\* (indices read 0-based, or read 1-based).
C1_WorldPreserved ==
    (BoxReturned /\ ~IsEmptyMask(roi) /\ vol.shape = roi.shape) =>
        \E base \in {0, 1} :
            \A a \in Axes : \A i \in 0..(TheResult.vol.shape[a] - 1) :
                IntrinsicToWorld(TheResult.ref, a, i + base)
                    = IntrinsicToWorld(spatial_ref, a, i + box_bound[a][1] + base)

\* C2: with a volume of the mask's extent and a margin N >= 0 or a factor
\* F >= 1, the box used to slice lies within the volume and is not inverted:
\* 0 <= min <= max <= imageSize - 1 on every axis.
C2_InRangeBox ==
    (BoxReturned /\ vol.shape = roi.shape
        /\ (IsComp(box_string) \/ GrowingRequest(box_string))) =>
        \A a \in Axes :
            /\ 0 <= box_bound[a][1]
            /\ box_bound[a][1] <= box_bound[a][2]
            /\ box_bound[a][2] <= vol.shape[a] - 1

\* A margin was requested on a tight box touching the volume boundary, it was
\* cut down, and the box was used.
C2_Witness ==
    /\ BoxReturned
    /\ vol.shape = roi.shape
    /\ box_string = BOX \o Dec(2)
    /\ TightBox[1][1] = 0
    /\ TightBox[2][2] = roi.shape[2] - 1
    /\ n_v # [a \in Axes |-> 2]

\* C3: the halve-and-retry loop terminates from any non-negative margin: an
\* iteration always moves on (it never repeats its own state), and one that
\* stays in the loop has floor-halved the margin on every axis, to a margin
\* that is still non-negative and of a strictly smaller sum; a margin that
\* became zero on all axes leaves the loop, and the tight box is then used.
C3_MarginLoopTerminates ==
    /\ []((pc = "loop" /\ \A a \in Axes : n_v[a] >= 0) => ENABLED <<LoopIter>>_vars)
    /\ [][(pc = "loop" /\ \A a \in Axes : n_v[a] >= 0) =>
            /\ pc' \in {"loop", "crop"}
            /\ pc' = "loop" =>
                /\ \A a \in Axes :
                     /\ 2 * n_v'[a] <= n_v[a]
                     /\ n_v[a] <= 2 * n_v'[a] + 1
                     /\ n_v'[a] >= 0
                /\ n_v'[1] + n_v'[2] + n_v'[3] < n_v[1] + n_v[2] + n_v[3]
            /\ (pc' = "crop" /\ n_v' # n_v) => n_v' = Zero3]_vars
    /\ [][(pc = "crop" /\ n_v = Zero3) => box_bound' = TightBox]_vars

\* The loop bottomed out: unequal margins were requested, none is left.
C3_Witness ==
    /\ pc = "crop"
    /\ box_string = <<"3">> \o BOX
    /\ Extent(TightBox)[1] # Extent(TightBox)[2]
    /\ n_v = Zero3

\* round(size/2) with halves to even, for size >= 0, written out.
HalfToEven(s) ==
    IF s % 2 = 0 THEN s \div 2
    ELSE IF ((s - 1) \div 2) % 2 = 0 THEN (s - 1) \div 2 ELSE (s + 1) \div 2

\* "2box" and the tight box grown by round(size/2) per side fits the volume.
TwoBoxFits ==
    /\ BoxReturned
    /\ box_string = TWOBOX
    /\ \A a \in Axes :
         /\ TightBox[a][1] - HalfToEven(Extent(TightBox)[a]) >= 0
         /\ TightBox[a][2] + HalfToEven(Extent(TightBox)[a]) <= vol.shape[a] - 1

C5_FullIsIdentity ==
    /\ []((pc = "done" /\ box_string = FULL) =>
            /\ result = {[vol |-> vol, roi |-> roi, ref |-> spatial_ref]}
            /\ bb_calls = 0)
    /\ []((pc = "error" /\ box_string = FULL) => FALSE)
    /\ [][box_string = FULL =>
            vol' = vol /\ roi' = roi /\ spatial_ref' = spatial_ref]_vars

\* "full" returned on an all-zero mask.
C5_Witness ==
    /\ pc = "done"
    /\ box_string = FULL
    /\ IsEmptyMask(roi)
    /\ bb_calls = 0

\* C9 (as claimed): with volume and mask of different extents and a crop spec
\* that computes a box, compute_box ends in an error and returns nothing.
C9_ShapeMismatchFails ==
    (vol.shape # roi.shape /\ ComputesBox(box_string) /\ pc \in {"done", "error"}) =>
        (pc = "error" /\ result = {})

(***************************************************************************)
(* Properties of get_polygon_mask.                                         *)
(***************************************************************************)
ValidOrientations == {"Axial", "Sagittal", "Coronal"}
ContourIds == {roi_xyz[r][4] : r \in 1..Len(roi_xyz)}
SliceAxis == AxisPerm(orientation)[3]

\* The unrounded slice-axis intrinsic coordinates of the points of a contour,
\* in the order of the rows, as numerators over the common denominator.
SliceCoords(id) ==
    LET rows == Ind(roi_xyz, id)
    IN  [i \in 1..Len(rows) |->
            WorldToIntrinsic(spatial_ref, SliceAxis, roi_xyz[rows[i]][SliceAxis]).num]
SliceDen == 2 * spatial_ref.PixelExtentInWorld[SliceAxis]

\* mode(round(v)) and round(mode(v)) for the contour id.
ModeOfRounded(id) ==
    Mode([i \in 1..Len(SliceCoords(id)) |-> RoundHalfEven(SliceCoords(id)[i], SliceDen)])
RoundOfMode(id) == RoundHalfEven(Mode(SliceCoords(id)), SliceDen)

\* The contour the running iteration is about, and the one the last completed
\* iteration was about.
ThisId == ClosedContours(roi_xyz)[c_c + 1]
DoneId == ClosedContours(roi_xyz)[c_c]
InIteration == pc = "loop" /\ c_c < Len(ClosedContours(roi_xyz))
IterationCompletes == InIteration /\ pc' = "loop" /\ c_c' = c_c + 1

\* The rasterization of one contour on its own: its voxels in the mask.
Alone(id) ==
    {<<ij[1], ij[2], PyIndex(ModeOfRounded(id), spatial_ref.ImageSize[3])>> :
        ij \in InPoly(spatial_ref, roi_xyz, grid, AxisPerm(orientation)[1],
                      AxisPerm(orientation)[2], id)}

\* C6: a voxel set after some contour stays set after every later contour,
\* and the returned mask is the union of the rasterizations of the contours
\* taken one by one (so a contour inside another on the same slice clears
\* nothing).
C6_UnionMonotone ==
    /\ [][InIteration => roi_mask \subseteq roi_mask']_vars
    /\ [][IterationCompletes => roi_mask' = roi_mask \cup Alone(ThisId)]_vars
    /\ [](pc = "done" => result = {UNION {Alone(id) : id \in ContourIds}})

\* Two contours on one slice, the second rasterized inside the first, and the
\* mask returned.
C6_Witness ==
    /\ pc = "done"
    /\ Cardinality(ContourIds) = 2
    /\ \E id1 \in ContourIds : \E id2 \in ContourIds \ {id1} :
         /\ Alone(id2) # {}
         /\ Alone(id2) \subseteq Alone(id1)
         /\ Alone(id2) # Alone(id1)
    /\ \A id \in ContourIds : Alone(id) \subseteq roi_mask

\* C7 (as claimed): the slice index written for a contour is round(mode(v)).
C7_RoundOfMode ==
    [][InIteration => select_slice' = {RoundOfMode(ThisId)}]_vars

\* C7 (amended): the slice index computed for a contour is mode(round(v)),
\* the mode of the rounded coordinates (round to nearest, halves to even;
\* mode with ties to the smallest), and the voxels the iteration sets lie at
\* that index of the third array axis (a negative index counting from the end).
C7_ModeOfRounded ==
    [][InIteration =>
        /\ select_slice' = {ModeOfRounded(ThisId)}
        /\ \A v \in roi_mask' \ roi_mask :
             v[3] = PyIndex(ModeOfRounded(ThisId), spatial_ref.ImageSize[3])]_vars

\* A contour whose points straddle two slices was written: round(mode(v)) and
\* mode(round(v)) differ, and the mask holds voxels at mode(round(v)).
C7_Witness ==
    /\ pc = "loop"
    /\ c_c >= 1
    /\ RoundOfMode(DoneId) # ModeOfRounded(DoneId)
    /\ select_slice = {ModeOfRounded(DoneId)}
    /\ \E v \in roi_mask : v[3] = ModeOfRounded(DoneId)

\* C8 (as claimed): for each valid orientation the query grid spans the image
\* extents of the two in-plane axes, and a contour (here: one whose assigned
\* slice index is not negative) changes voxels only at its assigned slice
\* index along the slice axis.
C8_WritesAlongSliceAxis ==
    [][(IterationCompletes /\ orientation \in ValidOrientations
            /\ ModeOfRounded(ThisId) >= 0) =>
        /\ grid = <<spatial_ref.ImageSize[AxisPerm(orientation)[1]],
                    spatial_ref.ImageSize[AxisPerm(orientation)[2]]>>
        /\ \A v \in roi_mask' \ roi_mask :
             v[SliceAxis] = PyIndex(ModeOfRounded(ThisId), spatial_ref.ImageSize[SliceAxis])]_vars

\* C10: with an orientation other than the three labels, get_polygon_mask
\* ends in a ValueError, never enters the loop, rasterizes nothing, returns
\* no mask, and leaves its inputs as they were.
C10_InvalidOrientationFails ==
    /\ [](orientation \notin ValidOrientations =>
            /\ pc \in {"start", "error"}
            /\ pc = "error" => err = "ValueError"
            /\ select_slice = {}
            /\ inpoly = {}
            /\ roi_mask = {}
            /\ result = {})
    /\ [][(orientation \notin ValidOrientations /\ pc = "start") => pc' = "error"]_vars
    /\ [][orientation \notin ValidOrientations =>
            roi_xyz' = roi_xyz /\ spatial_ref' = spatial_ref]_vars

\* The call failed on a lower-case label, with contours given.
C10_Witness ==
    /\ pc = "error"
    /\ orientation = "axial"
    /\ Len(roi_xyz) > 0
    /\ result = {}

(***************************************************************************)
(* Properties of process_dicom_scan_files.                                 *)
(***************************************************************************)
\* The call was made with image paths and without RTstruct files.
NoRTstruct == pathImages # {} /\ (pathRS = {} \/ pathRS = {<< >>})

\* The images were read and the volume was assembled: MEDimg carries the
\* data, the type, the spatial reference and the headers.
Assembled ==
    /\ MEDimg # {}
    /\ TheMEDimg.data /\ TheMEDimg.spatial_ref /\ TheMEDimg.dicom_h
    /\ TheMEDimg.type # << >>

\* The final steps, done: position and id recorded, the object saved when
\* path_save is given, MEDimg returned.
FinalStepsDone ==
    /\ TheMEDimg.patientPosition = HeaderValue("PatientPosition")
    /\ TheMEDimg.patient_id = HeaderValue("patient_id")
    /\ path_save # {} => saved = {<<TheMEDimg, HeaderValue("series_description")>>}
    /\ result = {MEDimg}
    /\ err = ""

\* C11 (as claimed): a call with image paths and with pathRS None or empty,
\* whose image reading and volume assembly succeed (the headers carrying every
\* attribute the function reads), never enters the error handler, and once it
\* has ended it has recorded the patient position and the patient id, saved
\* the object when path_save is given, and returned the MEDimage.
C11_NoRTstructReachesFinalSteps ==
    (NoRTstruct /\ Assembled /\ header = HeaderAttrs)
        => /\ pc # "handler"
           /\ caught = {}
           /\ pc = "done" => FinalStepsDone

====
